---------------------------- MODULE Spec2Model ----------------------------
(***************************************************************************)
(* A model of the account core of SmartRent-Backend:                       *)
(*   account/models.py       AccountManager, Account                       *)
(*   account/serializers.py  the read and the two write serializers        *)
(*   account/views.py        get_users                                     *)
(*                                                                         *)
(* Text is a sequence of one-character strings, so that normalisation,     *)
(* splitting at "@" and lower-casing are computed and not assumed.  A date *)
(* is a triple <<year, month, day>>.  Python's None is NoText for text     *)
(* arguments and the empty tuple for optional dates and ages.              *)
(***************************************************************************)
EXTENDS Integers, Sequences, FiniteSets, TLC

VARIABLES
    accounts,   \* the rows of the Account table
    today,      \* the current date (datetime.now() / date.today())
    result,     \* what the last manager / serializer / view call produced
    before,     \* the rows of the table when the last call started
    pc,         \* per concurrent request: where it is inside create_user
    pending,    \* per concurrent request: the account built and not yet saved
    outcome     \* per concurrent request: how its create_user ended

vars == <<accounts, today, result, before, pc, pending, outcome>>

(***************************************************************************)
(* Bounds of the model.                                                    *)
(***************************************************************************)
MaxAccounts == 2

NumWorkers == 2

(***************************************************************************)
(* Python values.                                                          *)
(***************************************************************************)
NoText == <<"#None">>

NoDate == <<>>

EmptyText == <<>>

\* A truthiness test that lets "" through (only None is falsy).
TruthyNoneOnly(s) == s # NoText

\* Python truthiness of a text argument: None and "" are falsy.
Truthy(s) == s # NoText /\ s # EmptyText

(***************************************************************************)
(* Input domains.                                                          *)
(***************************************************************************)
\* None, "", and one address in three spellings: as is, with the local
\* part capitalised, with the domain capitalised.
Emails ==
    { NoText, EmptyText,
      <<"b", "@", "x">>, <<"B", "@", "x">>, <<"b", "@", "X">> }

Passwords == { NoText, <<"p", "w">> }

Salts == { "s1", "s2" }

\* The UUIDs of the model, in the order fresh ones are handed out.
IdOrder == <<"u1", "u2", "u3", "u4">>

Ids == { IdOrder[i] : i \in DOMAIN IdOrder }

\* Identifiers handed to get_object_by_id: stored or unused UUIDs, None,
\* and a string that is not a UUID.
LookupIds == Ids \cup { "None", "not-a-uuid" }

Phones == { <<"1">> }

\* The days the model's calendar runs through, in order.
Days == << <<2024, 2, 29>>, <<2024, 3, 1>> >>

DobDates == { <<2000, 2, 28>>, <<2000, 3, 2>>, <<2024, 3, 1>> }

\* One keyword argument, as a dictionary with a single key.
FlagExtras ==
    { [k \in {"is_staff"} |-> v] : v \in {FALSE} }
    \cup { [k \in {"is_superuser"} |-> v] : v \in {FALSE} }
    \cup { [k \in {"is_verified"} |-> v] : v \in {FALSE} }
    \cup { [k \in {"role"} |-> v] : v \in {"tenant"} }

PhoneExtras == { [k \in {"phone_number"} |-> v] : v \in Phones }

DobExtras == { [k \in {"dob"} |-> v] : v \in DobDates }

\* The **extra_fields dictionaries passed to the manager: none, or one
\* keyword.
ExtraFieldsSet == { <<>> } \cup FlagExtras \cup PhoneExtras

(***************************************************************************)
(* Dictionaries (Python dict.get / dict.setdefault).                       *)
(***************************************************************************)
Get(d, k, default) == IF k \in DOMAIN d THEN d[k] ELSE default

SetDefault(d, k, v) == IF k \in DOMAIN d THEN d ELSE d @@ (k :> v)

(***************************************************************************)
(* Text helpers.                                                           *)
(***************************************************************************)
LowerChar(c) ==
    CASE c = "A" -> "a"
      [] c = "B" -> "b"
      [] c = "O" -> "o"
      [] c = "X" -> "x"
      [] OTHER -> c

Lower(s) == [i \in 1..Len(s) |-> LowerChar(s[i])]

\* str.strip(): drop leading and trailing blanks.
RECURSIVE Strip(_)
Strip(s) ==
    IF s = <<>> THEN s
    ELSE IF Head(s) = " " THEN Strip(Tail(s))
    ELSE IF s[Len(s)] = " " THEN Strip(SubSeq(s, 1, Len(s) - 1))
    ELSE s

\* The position of the last "@" of s, 0 when there is none
\* (the split point of rsplit("@", 1)).
LastAt(s) ==
    IF \E i \in 1..Len(s) : s[i] = "@"
    THEN CHOOSE i \in 1..Len(s) :
            s[i] = "@" /\ \A j \in (i + 1)..Len(s) : s[j] # "@"
    ELSE 0

\* A normalisation that leaves the letter case of the domain alone.
normalize_email_keep_case(email) ==
    LET e == IF Truthy(email) THEN email ELSE EmptyText
        t == Strip(e)
    IN  IF LastAt(t) = 0 THEN e ELSE t

\* BaseUserManager.normalize_email: lower-case the domain part only; text
\* without "@" comes back as it was given.
normalize_email(email) ==
    LET e == IF Truthy(email) THEN email ELSE EmptyText
        t == Strip(e)
        at == LastAt(t)
    IN  IF at = 0 THEN e
        ELSE SubSeq(t, 1, at - 1) \o <<"@">> \o Lower(SubSeq(t, at + 1, Len(t)))

(***************************************************************************)
(* Credentials (AbstractBaseUser.set_password / check_password).  The      *)
(* digest is a symbolic term over the salt and the raw password.           *)
(***************************************************************************)
Digest(salt, raw) == <<"H(", salt, ",">> \o raw \o <<")">>

make_password(raw, salt) == <<"pbkdf2_sha256", "$", salt, "$">> \o Digest(salt, raw)

check_password(raw, encoded) ==
    /\ Len(encoded) >= 4
    /\ encoded[1] = "pbkdf2_sha256"
    /\ encoded = make_password(raw, encoded[3])

\* A set_password that stores the raw password.
set_password_plain(account, raw, salt) == [account EXCEPT !.password = raw]

set_password(account, raw, salt) ==
    [account EXCEPT !.password = make_password(raw, salt)]

(***************************************************************************)
(* Dates and the derived age.                                              *)
(***************************************************************************)
\* Python's tuple order on (month, day) pairs.
PairLess(a, b) == a[1] < b[1] \/ (a[1] = b[1] /\ a[2] < b[2])

\* Python's order on dates.
DateLess(a, b) == a[1] < b[1] \/ (a[1] = b[1] /\ PairLess(<<a[2], a[3]>>, <<b[2], b[3]>>))

\* int(bool)
BoolInt(b) == IF b THEN 1 ELSE 0

\* An age that compares the months only.
age_month_only(dob, now) ==
    IF dob = NoDate THEN <<>>
    ELSE << (now[1] - dob[1]) - BoolInt(now[2] < dob[2]) >>

\* Account.age: <<>> for None, <<n>> for the integer n.
age(dob, now) ==
    IF dob = NoDate THEN <<>>
    ELSE << (now[1] - dob[1]) - BoolInt(PairLess(<<now[2], now[3]>>, <<dob[2], dob[3]>>)) >>

(***************************************************************************)
(* The Account row.  made_by is history: which call wrote the row.         *)
(***************************************************************************)
\* Account(email=email, **extra_fields): the field defaults of the model,
\* overridden by the keyword arguments; the password is not set yet.
Account(id, email, extra_fields, maker) ==
    [ id           |-> id,
      email        |-> email,
      phone_number |-> Get(extra_fields, "phone_number", EmptyText),
      role         |-> Get(extra_fields, "role", "tenant"),
      dob          |-> Get(extra_fields, "dob", NoDate),
      is_active    |-> Get(extra_fields, "is_active", TRUE),
      is_verified  |-> Get(extra_fields, "is_verified", FALSE),
      is_staff     |-> Get(extra_fields, "is_staff", FALSE),
      is_superuser |-> Get(extra_fields, "is_superuser", FALSE),
      password     |-> EmptyText,
      made_by      |-> maker ]

\* id = models.UUIDField(default=uuid.uuid4): an identifier no row has.
uuid4(rows) == IdOrder[Cardinality(rows) + 1]

\* A table whose only unique index is the primary key.
UniqueViolationPkOnly(rows, a) == \E r \in rows : r.id = a.id

\* The unique indexes of the table: id (primary key), email, phone_number.
UniqueViolation(rows, a) ==
    \E r \in rows :
        r.id = a.id \/ r.email = a.email \/ r.phone_number = a.phone_number

\* account.save(): the INSERT either adds the row or fails on a unique index.
save(rows, a) ==
    IF UniqueViolation(rows, a)
    THEN [kind |-> "IntegrityError", msg |-> "UNIQUE constraint failed",
          rows |-> rows, created |-> {}]
    ELSE [kind |-> "ok", msg |-> "", rows |-> rows \cup {a}, created |-> {a}]

(***************************************************************************)
(* AccountManager.                                                         *)
(***************************************************************************)
\* create_user up to, and not including, account.save().
build_user(id, email, password, extra_fields, salt, maker) ==
    IF ~Truthy(email)
    THEN [kind |-> "ValueError", msg |-> "Email is required", built |-> {}]
    ELSE IF password = NoText
    THEN [kind |-> "ValueError", msg |-> "User must have password", built |-> {}]
    ELSE [kind |-> "ok", msg |-> "",
          built |-> { set_password(
                        Account(id, normalize_email(email), extra_fields, maker),
                        password, salt) }]

create_user(rows, email, password, extra_fields, salt, maker) ==
    LET b == build_user(uuid4(rows), email, password, extra_fields, salt, maker)
    IN  IF b.kind # "ok"
        THEN [kind |-> b.kind, msg |-> b.msg, rows |-> rows, created |-> {}]
        ELSE save(rows, CHOOSE a \in b.built : TRUE)

\* Privilege flags forced to True instead of defaulted.
superuser_forced(extra_fields) ==
    [k \in DOMAIN extra_fields \cup {"is_staff", "is_active", "role",
                                     "is_superuser", "is_verified"} |->
        IF k \in {"is_staff", "is_superuser"} THEN TRUE
        ELSE IF k \in DOMAIN extra_fields THEN extra_fields[k]
        ELSE IF k = "role" THEN "admin" ELSE TRUE]

\* The five setdefault calls of create_superuser.
superuser_defaults(extra_fields) ==
    SetDefault(
      SetDefault(
        SetDefault(
          SetDefault(
            SetDefault(extra_fields, "is_staff", TRUE),
            "is_active", TRUE),
          "role", "admin"),
        "is_superuser", TRUE),
      "is_verified", TRUE)

create_superuser(rows, email, password, extra_fields, salt) ==
    IF email = NoText
    THEN [kind |-> "TypeError", msg |-> "Superusers must have an email.",
          rows |-> rows, created |-> {}]
    ELSE IF password = NoText
    THEN [kind |-> "TypeError", msg |-> "Superusers must have an password.",
          rows |-> rows, created |-> {}]
    ELSE LET ex == superuser_defaults(extra_fields)
         IN  IF ex["is_staff"] # TRUE
             THEN [kind |-> "ValueError", msg |-> "Superuser must have is_staff=True.",
                   rows |-> rows, created |-> {}]
             ELSE IF ex["is_superuser"] # TRUE
             THEN [kind |-> "ValueError",
                   msg |-> "Superuser must have is_superuser=True.",
                   rows |-> rows, created |-> {}]
             ELSE create_user(rows, email, password, ex, salt, "create_superuser")

\* self.get(id=id): what the query set's get does with the identifier.  A
\* text that is no UUID fails the UUIDField's conversion with
\* django.core.exceptions.ValidationError; None matches no row.
queryset_get(rows, id) ==
    IF id = "not-a-uuid"
    THEN [raised |-> "ValidationError", found |-> {}]
    ELSE IF \E r \in rows : r.id = id
    THEN [raised |-> "", found |-> {r \in rows : r.id = id}]
    ELSE [raised |-> "ObjectDoesNotExist", found |-> {}]

\* except (ObjectDoesNotExist, ValueError, TypeError)
CaughtByGet == { "ObjectDoesNotExist", "ValueError", "TypeError" }

get_object_by_id(rows, id) ==
    LET g == queryset_get(rows, id)
    IN  IF g.raised = "" THEN [kind |-> "ok", found |-> g.found]
        ELSE IF g.raised \in CaughtByGet THEN [kind |-> "ok", found |-> {}]
        ELSE [kind |-> g.raised, found |-> {}]

(***************************************************************************)
(* Serializers.                                                            *)
(***************************************************************************)
FutureDobMessage == "Date of birth can't be in the future"

\* A validate_dob that also rejects today (>= for >).
validate_dob_ge(dob, now) ==
    IF dob = NoDate
    THEN [kind |-> "TypeError", msg |-> "'>' not supported", value |-> NoDate]
    ELSE IF ~DateLess(dob, now)
    THEN [kind |-> "ValidationError", msg |-> FutureDobMessage, value |-> NoDate]
    ELSE [kind |-> "ok", msg |-> "", value |-> dob]

\* AccountProfileWriteSerializer.validate_dob and
\* AccountRegisterSerializer.validate_dob (the same body).  None > date
\* raises TypeError.
validate_dob(dob, now) ==
    IF dob = NoDate
    THEN [kind |-> "TypeError", msg |-> "'>' not supported", value |-> NoDate]
    ELSE IF DateLess(now, dob)
    THEN [kind |-> "ValidationError", msg |-> FutureDobMessage, value |-> NoDate]
    ELSE [kind |-> "ok", msg |-> "", value |-> dob]

\* The registration payloads: email and phone_number, and dob either left
\* out, null (NoDate) or a date.
RegisterData ==
    { [email |-> e, phone_number |-> p] :
        e \in { <<"b", "@", "X">> }, p \in Phones \cup { <<"2">> } }

RegisterDobs == { <<"omitted">>, <<"null">> } \cup { <<"date", d>> : d \in DobDates }

\* AccountRegisterSerializer: is_valid(), then save().  The unique
\* validators of email and phone_number and validate_dob each add a field
\* error; a payload without errors is inserted as it stands.
register(rows, data, dobin, now) ==
    LET v == IF dobin[1] = "date" THEN validate_dob(dobin[2], now)
             ELSE IF dobin[1] = "null" THEN validate_dob(NoDate, now)
             ELSE [kind |-> "ok", msg |-> "", value |-> NoDate]
        dup == \E r \in rows :
                  r.email = data.email \/ r.phone_number = data.phone_number
        a == Account(uuid4(rows), data.email,
                     [k \in {"phone_number", "dob"} |->
                         IF k = "dob" THEN v.value ELSE data.phone_number],
                     "register")
    IN  IF v.kind = "TypeError"
        THEN [kind |-> "TypeError", msg |-> v.msg, rows |-> rows,
              created |-> {}, value |-> NoDate]
        ELSE IF v.kind = "ValidationError"
        THEN [kind |-> "ValidationError", msg |-> v.msg, rows |-> rows,
              created |-> {}, value |-> NoDate]
        ELSE IF dup
        THEN [kind |-> "ValidationError", msg |-> "already exists", rows |-> rows,
              created |-> {}, value |-> v.value]
        ELSE [kind |-> "ok", msg |-> "", rows |-> rows \cup {a},
              created |-> {a}, value |-> v.value]

\* AccountProfileWriteSerializer(instance, data={dob}, partial=True):
\* is_valid(), then save() sets the validated dob on the instance.
profile_write(rows, instance, dob, now) ==
    LET v == validate_dob(dob, now)
        updated == [instance EXCEPT !.dob = v.value]
    IN  IF v.kind # "ok"
        THEN [kind |-> v.kind, msg |-> v.msg, rows |-> rows,
              created |-> {}, value |-> NoDate]
        ELSE [kind |-> "ok", msg |-> "",
              rows |-> (rows \ {instance}) \cup {updated},
              created |-> {updated}, value |-> v.value]

\* AccountProfileReadSerializer over Account.objects.all(): the id, dob and
\* derived age of every row.
read_all(rows, now) ==
    { [id |-> r.id, dob |-> r.dob, age |-> age(r.dob, now)] : r \in rows }

(***************************************************************************)
(* The state machine: calls made one after another.                        *)
(***************************************************************************)
Workers == 1..NumWorkers

\* The shape of result; every call fills in what it uses.
NoResult ==
    [ op |-> "none", kind |-> "ok", msg |-> "", created |-> {},
      email |-> NoText, password |-> NoText, extra |-> <<>>,
      id |-> "None", dob |-> NoDate, value |-> NoDate, now |-> NoDate,
      listing |-> {} ]

Init ==
    /\ accounts = {}
    /\ today = Days[1]
    /\ result = NoResult
    /\ before = {}
    /\ pc = [w \in Workers |-> "idle"]
    /\ pending = [w \in Workers |-> {}]
    /\ outcome = [w \in Workers |-> ""]

HasRoom == Cardinality(accounts) < MaxAccounts

\* Account.objects.create_user(email, password, **extra_fields), with the
\* arguments drawn from the given sets.
CreateUserFrom(emails, passwords, extras) ==
    /\ HasRoom
    /\ \E email \in emails, password \in passwords,
          extra \in extras, salt \in Salts :
          LET r == create_user(accounts, email, password, extra, salt, "create_user")
          IN  /\ accounts' = r.rows
              /\ result' = [NoResult EXCEPT !.op = "create_user", !.kind = r.kind,
                               !.msg = r.msg, !.created = r.created,
                               !.email = email, !.password = password,
                               !.extra = extra]
    /\ before' = accounts
    /\ UNCHANGED <<today, pc, pending, outcome>>

CreateUser == CreateUserFrom(Emails, Passwords, ExtraFieldsSet)

\* Account.objects.create_superuser(email, password, **extra_fields)
CreateSuperuser ==
    /\ HasRoom
    /\ \E email \in Emails, password \in Passwords,
          extra \in ExtraFieldsSet, salt \in Salts :
          LET r == create_superuser(accounts, email, password, extra, salt)
          IN  /\ accounts' = r.rows
              /\ result' = [NoResult EXCEPT !.op = "create_superuser",
                               !.kind = r.kind, !.msg = r.msg,
                               !.created = r.created, !.email = email,
                               !.password = password, !.extra = extra]
    /\ before' = accounts
    /\ UNCHANGED <<today, pc, pending, outcome>>

\* Account.objects.get_object_by_id(id)
GetObjectById ==
    /\ \E id \in LookupIds :
          LET r == get_object_by_id(accounts, id)
          IN  result' = [NoResult EXCEPT !.op = "get_object_by_id",
                            !.kind = r.kind, !.created = r.found, !.id = id]
    /\ before' = accounts
    /\ UNCHANGED <<accounts, today, pc, pending, outcome>>

Next ==
    \/ CreateUser
    \/ CreateSuperuser
    \/ GetObjectById

Spec == Init /\ [][Next]_vars

(***************************************************************************)
(* The state machine of the date of birth: accounts created with a dob,    *)
(* the two write serializers, the listing view and the calendar.           *)
(***************************************************************************)
CreateUserDob ==
    CreateUserFrom({ <<"b", "@", "x">> }, { <<"p", "w">> }, { <<>> } \cup DobExtras)

\* AccountRegisterSerializer(data=...).is_valid() and .save()
Register ==
    /\ HasRoom
    /\ \E data \in RegisterData, dobin \in RegisterDobs :
          LET r == register(accounts, data, dobin, today)
          IN  /\ accounts' = r.rows
              /\ result' = [NoResult EXCEPT !.op = "register", !.kind = r.kind,
                               !.msg = r.msg, !.created = r.created,
                               !.email = data.email,
                               !.dob = IF dobin[1] = "date" THEN dobin[2] ELSE NoDate,
                               !.value = r.value, !.now = today]
    /\ before' = accounts
    /\ UNCHANGED <<today, pc, pending, outcome>>

\* AccountProfileWriteSerializer(instance, data=...).is_valid() and .save()
ProfileWrite ==
    /\ \E instance \in accounts, dob \in DobDates :
          LET r == profile_write(accounts, instance, dob, today)
          IN  /\ accounts' = r.rows
              /\ result' = [NoResult EXCEPT !.op = "profile_write", !.kind = r.kind,
                               !.msg = r.msg, !.created = r.created,
                               !.id = instance.id, !.dob = dob,
                               !.value = r.value, !.now = today]
    /\ before' = accounts
    /\ UNCHANGED <<today, pc, pending, outcome>>

\* views.get_users: every account through the read serializer.
GetUsers ==
    /\ result' = [NoResult EXCEPT !.op = "get_users", !.now = today,
                     !.listing = read_all(accounts, today)]
    /\ before' = accounts
    /\ UNCHANGED <<accounts, today, pc, pending, outcome>>

\* The calendar moves on to the next day.
Tick ==
    /\ \E i \in 1..(Len(Days) - 1) : today = Days[i] /\ today' = Days[i + 1]
    /\ UNCHANGED <<accounts, result, before, pc, pending, outcome>>

DobNext ==
    \/ CreateUserDob
    \/ Register
    \/ ProfileWrite
    \/ GetUsers
    \/ Tick

DobSpec == Init /\ [][DobNext]_vars

(***************************************************************************)
(* The state machine of concurrent requests: every worker makes one        *)
(* create_user call.  The call takes no lock; its only access to the       *)
(* table is the INSERT of account.save(), which the store runs atomically  *)
(* against its unique indexes.  Worker w is handed the UUID IdOrder[w].    *)
(***************************************************************************)
ConcExtras == { <<>> } \cup PhoneExtras

\* create_user, lines 68-76: validation, normalisation, Account(...),
\* set_password.  Nothing is read from or written to the table.
Begin(w) ==
    /\ pc[w] = "idle"
    /\ \E email \in Emails, password \in Passwords,
          extra \in ConcExtras, salt \in Salts :
          LET b == build_user(IdOrder[w], email, password, extra, salt, "create_user")
          IN  IF b.kind = "ok"
              THEN /\ pending' = [pending EXCEPT ![w] = b.built]
                   /\ pc' = [pc EXCEPT ![w] = "save"]
                   /\ outcome' = outcome
              ELSE /\ pending' = pending
                   /\ pc' = [pc EXCEPT ![w] = "done"]
                   /\ outcome' = [outcome EXCEPT ![w] = b.kind]
    /\ UNCHANGED <<accounts, today, result, before>>

\* create_user, line 77: account.save(using=self._db).
Save(w) ==
    /\ pc[w] = "save"
    /\ LET r == save(accounts, CHOOSE a \in pending[w] : TRUE)
       IN  /\ accounts' = r.rows
           /\ outcome' = [outcome EXCEPT ![w] = r.kind]
    /\ pc' = [pc EXCEPT ![w] = "done"]
    /\ UNCHANGED <<pending, today, result, before>>

ConcNext == \E w \in Workers : Begin(w) \/ Save(w)

ConcSpec == Init /\ [][ConcNext]_vars

(***************************************************************************)
(* C5.  Concurrent create_user calls.                                      *)
(***************************************************************************)
UniqueEmailAndPhone ==
    \A a \in accounts : \A b \in accounts :
        a # b => a.email # b.email /\ a.phone_number # b.phone_number

\* Workers w and v have both finished a call that reached save() with the
\* same normalised email.
SameEmailDone(w, v) ==
    /\ w # v
    /\ pc[w] = "done" /\ pc[v] = "done"
    /\ pending[w] # {} /\ pending[v] # {}
    /\ \E a \in pending[w] : \E b \in pending[v] : a.email = b.email

\* C5: under every interleaving of concurrent create_user calls, email and
\* phone_number are unique over the stored accounts; of two calls with the
\* same email at most one succeeds and the other fails with the store's
\* uniqueness violation, and exactly one succeeds when no third call
\* stored an account.
C5_ConcurrentUnique ==
    /\ UniqueEmailAndPhone
    /\ \A w \in Workers : \A v \in Workers :
          SameEmailDone(w, v) =>
             /\ ~(outcome[w] = "ok" /\ outcome[v] = "ok")
             /\ outcome[w] \in {"ok", "IntegrityError"}
             /\ outcome[v] \in {"ok", "IntegrityError"}
             /\ (\A u \in Workers \ {w, v} : outcome[u] # "ok")
                   => (outcome[w] = "ok" \/ outcome[v] = "ok")

\* Two calls with the same normalised email both reached save(): one was
\* stored and the other failed on the unique index.
C5_Witness ==
    \E w \in Workers : \E v \in Workers :
        /\ SameEmailDone(w, v)
        /\ outcome[w] = "ok" /\ outcome[v] = "IntegrityError"
        /\ Cardinality(accounts) = 1

(***************************************************************************)
(* Claims about the manager, checked under Spec.                           *)
(***************************************************************************)
ManagerCall == result.op \in {"create_user", "create_superuser"}

SuperuserPrivileges(a) ==
    a.is_staff = TRUE /\ a.is_superuser = TRUE /\ a.is_verified = TRUE
    /\ a.role = "admin"

\* C1: every account a successful create_superuser call made has
\* is_staff, is_superuser and is_verified true and role 'admin', whatever
\* extra_fields said.
C1_SuperuserAlwaysPrivileged ==
    /\ \A a \in accounts : a.made_by = "create_superuser" => SuperuserPrivileges(a)
    /\ (result.op = "create_superuser" /\ result.kind # "ok") => accounts = before

\* Text with every letter lower-cased: equal for two emails exactly when
\* they differ only by letter case.
CaseFolded(e) == [i \in 1..Len(e) |-> LowerChar(e[i])]

\* Text with the letters after the last "@" lower-cased: equal for two
\* emails exactly when they differ only by the letter case of the domain.
DomainFolded(e) ==
    [i \in 1..Len(e) |->
        IF \E j \in 1..(i - 1) : e[j] = "@" /\ \A k \in (j + 1)..Len(e) : e[k] # "@"
        THEN LowerChar(e[i]) ELSE e[i]]

ValidCreateArgs ==
    result.email \notin {NoText, EmptyText} /\ result.password # NoText

\* C2 as stated: a create_user call whose email equals a stored account's
\* email up to letter case fails with the uniqueness violation, and no two
\* stored accounts have emails equal up to letter case.
C2_CaseInsensitiveCollision ==
    /\ (/\ result.op = "create_user"
        /\ ValidCreateArgs
        /\ \E a \in before : CaseFolded(a.email) = CaseFolded(result.email))
          => result.kind = "IntegrityError"
    /\ \A a \in accounts : \A b \in accounts :
          a # b => CaseFolded(a.email) # CaseFolded(b.email)

\* C2 as amended: a create_user call (with a password) whose email equals a
\* stored account's email up to the letter case of the domain part fails
\* with the uniqueness violation and stores nothing, and no two stored
\* accounts have emails equal up to the letter case of the domain part.
C2_DomainCaseCollision ==
    /\ (/\ result.op = "create_user"
        /\ ValidCreateArgs
        /\ \E a \in before : DomainFolded(a.email) = DomainFolded(result.email))
          => (result.kind = "IntegrityError" /\ accounts = before)
    /\ \A a \in accounts : \A b \in accounts :
          a # b => DomainFolded(a.email) # DomainFolded(b.email)

\* An account is stored and a later create_user call spelled its domain
\* differently: the call failed on the unique index.
C2_Witness ==
    /\ result.op = "create_user"
    /\ result.kind = "IntegrityError"
    /\ \E a \in before :
          /\ a.email # result.email
          /\ DomainFolded(a.email) = DomainFolded(result.email)
          /\ a.phone_number # Get(result.extra, "phone_number", EmptyText)

\* C3: create_user with an empty or missing email, or with password None,
\* raises (ValueError) and leaves the stored accounts as they were.
C3_InvalidCreateRejected ==
    (result.op = "create_user" /\ ~ValidCreateArgs)
       => /\ result.kind = "ValueError"
          /\ result.created = {}
          /\ accounts = before

\* An account is stored, and create_user was then called with "" as email
\* and a password.
C3_Witness ==
    /\ result.op = "create_user"
    /\ result.email = EmptyText
    /\ result.password # NoText
    /\ result.kind = "ValueError"
    /\ before # {}

ExplicitlyNotTrue(extra, k) == k \in DOMAIN extra /\ extra[k] # TRUE

\* C4: create_superuser with is_staff or is_superuser explicitly not true,
\* or with email or password missing, raises (ValueError, or TypeError for
\* a None email or password) before anything is persisted.
C4_SuperuserRejectedBeforePersistence ==
    (/\ result.op = "create_superuser"
     /\ \/ ExplicitlyNotTrue(result.extra, "is_staff")
        \/ ExplicitlyNotTrue(result.extra, "is_superuser")
        \/ ~ValidCreateArgs)
       => /\ result.kind \in {"ValueError", "TypeError"}
          /\ (result.email = NoText \/ result.password = NoText)
                <=> result.kind = "TypeError"
          /\ result.created = {}
          /\ accounts = before

\* An account is stored, and create_superuser was then called with a valid
\* email and password and is_superuser=False.
C4_Witness ==
    /\ result.op = "create_superuser"
    /\ ValidCreateArgs
    /\ ExplicitlyNotTrue(result.extra, "is_superuser")
    /\ result.kind = "ValueError"
    /\ before # {}

\* C8: get_object_by_id never raises; it returns the stored account with
\* that id when there is one and None otherwise, and changes nothing.
C8_GetByIdNeverRaises ==
    result.op = "get_object_by_id"
       => /\ result.kind = "ok"
          /\ result.created = {a \in before : a.id = result.id}
          /\ accounts = before

\* C9: a create_user call with valid arguments that meets no stored email
\* or phone number stores an account; the stored credential of every
\* account a call made verifies against the password of the call and is
\* not that password.
C9_CredentialHashed ==
    ManagerCall =>
       /\ \A a \in result.created :
             /\ a \in accounts
             /\ check_password(result.password, a.password)
             /\ a.password # result.password
       /\ (/\ result.op = "create_user"
           /\ ValidCreateArgs
           /\ \A r \in before :
                 /\ r.email # normalize_email(result.email)
                 /\ r.phone_number # Get(result.extra, "phone_number", EmptyText))
             => (result.kind = "ok" /\ result.created # {})

\* create_user stored an account.
C9_Witness ==
    /\ result.op = "create_user"
    /\ result.kind = "ok"
    /\ \E a \in result.created : a \in accounts /\ a.password # EmptyText

(***************************************************************************)
(* Claims about the date of birth and the derived age, checked under       *)
(* DobSpec.                                                                *)
(***************************************************************************)
\* C6: the derived age of every stored account, and every age the listing
\* returned, is absent or an integer >= 0.
C6_AgeNeverNegative ==
    /\ \A a \in accounts : a.dob # NoDate => age(a.dob, today)[1] >= 0
    /\ \A r \in result.listing : r.age # <<>> => r.age[1] >= 0

\* d is a later date than n.
StrictlyLater(d, n) ==
    \/ d[1] > n[1]
    \/ d[1] = n[1] /\ d[2] > n[2]
    \/ d[1] = n[1] /\ d[2] = n[2] /\ d[3] > n[3]

SerializerWrite == result.op \in {"register", "profile_write"}

\* C7: on both write serializers a dob later than the current date is
\* rejected with "Date of birth can't be in the future" and nothing is
\* written; a dob equal to the current date or earlier passes validate_dob
\* unchanged, and is the dob of the account a successful write stored.
C7_FutureDobRejected ==
    (SerializerWrite /\ result.dob # NoDate) =>
       IF StrictlyLater(result.dob, result.now)
       THEN /\ result.kind = "ValidationError"
            /\ result.msg = "Date of birth can't be in the future"
            /\ result.created = {}
            /\ accounts = before
       ELSE /\ result.msg # "Date of birth can't be in the future"
            /\ result.value = result.dob
            /\ result.kind = "ok" =>
                  /\ result.created # {}
                  /\ \A a \in result.created : a \in accounts /\ a.dob = result.dob

\* An account is stored and a profile write with tomorrow's date as dob
\* was rejected.
C7_Witness ==
    /\ result.op = "profile_write"
    /\ StrictlyLater(result.dob, result.now)
    /\ result.kind = "ValidationError"
    /\ before # {}

\* The age the claim gives: one less than the difference of the years when
\* (month, day) of the current date comes before (month, day) of the dob.
ExpectedAge(dob, now) ==
    IF now[2] < dob[2] \/ (now[2] = dob[2] /\ now[3] < dob[3])
    THEN (now[1] - dob[1]) - 1
    ELSE now[1] - dob[1]

\* C10: the listing gives every stored account its derived age: absent
\* when the dob is absent, else the difference of the years, less one when
\* the birthday is still to come this year; on 2024-03-01 that is 23 for
\* dob 2000-03-02 and 24 for dob 2000-02-28.
C10_AgeDerivation ==
    result.op = "get_users" =>
       /\ \A a \in before : \E r \in result.listing : r.id = a.id /\ r.dob = a.dob
       /\ \A r \in result.listing :
             /\ r.dob = NoDate => r.age = <<>>
             /\ r.dob # NoDate => r.age = << ExpectedAge(r.dob, result.now) >>
             /\ (result.now = <<2024, 3, 1>> /\ r.dob = <<2000, 3, 2>>)
                   => r.age = <<23>>
             /\ (result.now = <<2024, 3, 1>> /\ r.dob = <<2000, 2, 28>>)
                   => r.age = <<24>>

\* The listing of 2024-03-01 holds an account born 2000-03-02, one born
\* 2000-02-28, with the ages 23 and 24.
C10_Witness ==
    /\ result.op = "get_users"
    /\ result.now = <<2024, 3, 1>>
    /\ \E r \in result.listing : r.dob = <<2000, 3, 2>> /\ r.age = <<23>>
    /\ \E r \in result.listing : r.dob = <<2000, 2, 28>> /\ r.age = <<24>>

=============================================================================
